---- MODULE Spec2Model ----
(***************************************************************************)
(* Model of src/vs/workbench/common/views.ts: the ViewLocation value type  *)
(* and the ViewsRegistry singleton (views per location, tree view data     *)
(* providers per view id, and the three emitters).                         *)
(*                                                                         *)
(* One action per public method.  Every call runs to completion (the       *)
(* registry is synchronous), records itself in `call', its result in       *)
(* `ret' and the events it fired, in order, in `fired'.                    *)
(*                                                                         *)
(* The specifications share the state and the actions and differ in the    *)
(* calls the environment makes and in the listener attached: Spec (views), *)
(* SpecBatch (batches that reuse an id under another name), SpecTree (tree *)
(* view data providers), SpecLocation (location resolution), SpecRead (the *)
(* two reads), SpecReader, SpecMirror and SpecRecorder (a listener that    *)
(* reads the registry, mirrors the payloads, records the payloads).        *)
(***************************************************************************)
EXTENDS Integers, Sequences, FiniteSets, TLC

\* ------------------------------------------------------------------ bounds
MaxBatch == 2      \* longest viewDescriptors array passed to registerViews
MaxIds == 2        \* longest ids array passed to deregisterViews
MaxTreeBatch == 1  \* longest array passed where batches are not the point

\* ------------------------------------------------------------ ViewLocation
Explorer == [id |-> "explorer"]
Debug == [id |-> "debug"]
Extensions == [id |-> "extensions"]

ViewLocations == {Explorer, Debug, Extensions}

\* what a call returns: nothing / a value / a thrown Error
undefined == [kind |-> "undefined"]
Return(v) == [kind |-> "return", value |-> v]
Throw(key, id, loc) == [kind |-> "throw", key |-> key, id |-> id, location |-> loc]

getContributedViewLocationNoDebug(value) ==
    CASE value = Explorer.id -> Return(Explorer)
      [] OTHER -> undefined

getContributedViewLocation(value) ==
    CASE value = Explorer.id -> Return(Explorer)
      [] value = Debug.id -> Return(Debug)
      [] OTHER -> undefined

\* ------------------------------------------------------------------ inputs
ViewIds == {"a", "b", "c"}
Providers == {"P1", "P2"}
TreeViewIds == {"a", "b"}   \* the ids providers are bound to and asked for
LocationNames == {"explorer", "debug", "extensions", "scm"}

\* IViewDescriptor: id, name, location (the other fields are never read)
ViewDescriptor(id, name, location) == [id |-> id, name |-> name, location |-> location]

\* The descriptors the modelled callers pass: three ids in Explorer, one of
\* them also in Debug.
IViewDescriptor ==
    {ViewDescriptor("a", "n1", Explorer), ViewDescriptor("b", "n1", Explorer),
     ViewDescriptor("c", "n1", Explorer), ViewDescriptor("a", "n1", Debug)}

\* The descriptors SpecBatch passes: two ids in Explorer, one of them also in
\* Debug, and a second descriptor that reuses id "a" in Explorer under
\* another name.
IViewDescriptorRenamed ==
    {ViewDescriptor("a", "n1", Explorer), ViewDescriptor("b", "n1", Explorer),
     ViewDescriptor("a", "n2", Explorer), ViewDescriptor("a", "n1", Debug)}

\* The descriptors passed where a listener is attached: two ids in Explorer,
\* one of them also in Debug.
IViewDescriptorFew ==
    {ViewDescriptor("a", "n1", Explorer), ViewDescriptor("b", "n1", Explorer),
     ViewDescriptor("a", "n1", Debug)}

SeqsUpTo(S, n) == UNION {[1..k -> S] : k \in 0..n}

\* ------------------------------------------------------------------- state
VARIABLES
    views,                  \* _views: Map<ViewLocation, IViewDescriptor[]>
    treeViewDataPoviders,   \* _treeViewDataPoviders: Map<string, provider>
    call,                   \* the last call made on the module
    ret,                    \* what it returned or threw
    fired,                  \* the events it fired, in order
    everRegistered,         \* history: locations that ever received a view
    registered,             \* history: descriptors given to registerViews
    subscriber              \* the listener on the three events and what it keeps

vars == <<views, treeViewDataPoviders, call, ret, fired, everRegistered, registered,
          subscriber>>

\* Map helpers: a Map is a function whose DOMAIN is its key set
MapHas(m, k) == k \in DOMAIN m
MapSet(m, k, v) == [x \in (DOMAIN m) \cup {k} |-> IF x = k THEN v ELSE m[x]]
MapClear(m) == [x \in {} |-> undefined]

\* ----------------------------------------------------------- pure helpers
someNever(arr, id) == FALSE

\* views.some(v => v.id === id)
some(arr, id) == \E i \in 1..Len(arr) : arr[i].id = id

pushFront(arr, v) == <<v>> \o arr

push(arr, v) == Append(arr, v)

OnLocation(arr, loc) == SelectSeq(arr, LAMBDA v : v.location = loc)

\* getViews(loc): this._views.get(loc) || []  (an empty array is truthy)
getViewsIn(m, loc) == IF MapHas(m, loc) THEN m[loc] ELSE <<>>
getViews(loc) == getViewsIn(views, loc)

getTreeViewDataProviderIn(m, id) == IF MapHas(m, id) THEN Return(m[id]) ELSE undefined
getTreeViewDataProvider(id) == getTreeViewDataProviderIn(treeViewDataPoviders, id)

isDataProviderRegistered(id) ==
    \E loc \in DOMAIN views : some(views[loc], id)

\* ---------------------------------------------------------------- events
ViewsRegisteredEvent(payload) == [event |-> "onViewsRegistered", payload |-> payload]
ViewsDeregisteredEvent(payload) == [event |-> "onViewsDeregistered", payload |-> payload]
TreeViewDataProviderRegisteredEvent(id) ==
    [event |-> "onTreeViewDataProviderRegistered", payload |-> id]

\* ------------------------------------------------------------ subscribers
\* A listener attached to onViewsRegistered, onViewsDeregistered and
\* onTreeViewDataProviderRegistered before the first call.  Emitter.fire
\* calls it synchronously, inside the method that fires.
\*   none     : nobody listens
\*   reader   : reads both maps of the registry at every delivery of a call
\*   mirror   : keeps its own sequence per location from the payloads
\*   recorder : keeps the set of descriptors onViewsRegistered ever carried
NoSubscriber == [kind |-> "none"]
ReaderSubscriber == [kind |-> "reader", seen |-> <<>>]
MirrorSubscriber ==
    [kind |-> "mirror", mirror |-> [loc \in ViewLocations |-> <<>>], failed |-> FALSE]
RecorderSubscriber == [kind |-> "recorder", carried |-> {}]

Range(arr) == {arr[i] : i \in 1..Len(arr)}

\* the mirror's handlers: append the payload of onViewsRegistered, remove the
\* payload of onViewsDeregistered, each descriptor at its own location
MirrorApply(mirror, e) ==
    CASE e.event = "onViewsRegistered" ->
             [loc \in ViewLocations |-> mirror[loc] \o OnLocation(e.payload, loc)]
      [] e.event = "onViewsDeregistered" ->
             [loc \in ViewLocations |->
                 SelectSeq(mirror[loc], LAMBDA view : view \notin Range(e.payload))]
      [] OTHER -> mirror

\* one delivery: the handler runs while the maps are viewsNow, providersNow
Deliver(s, e, viewsNow, providersNow) ==
    CASE s.kind = "reader" ->
             [s EXCEPT !.seen = Append(@, [views |-> viewsNow,
                                           treeViewDataPoviders |-> providersNow])]
      [] s.kind = "mirror" -> [s EXCEPT !.mirror = MirrorApply(@, e)]
      [] s.kind = "recorder" ->
             [s EXCEPT !.carried = IF e.event = "onViewsRegistered"
                                   THEN @ \cup Range(e.payload) ELSE @]
      [] OTHER -> s

\* a call starts: the reader forgets what it saw during the call before
BeginCall(s) == IF s.kind = "reader" THEN [s EXCEPT !.seen = <<>>] ELSE s

\* history: a registerViews call threw (the listener is not told)
CallFailed(s) == IF s.kind = "mirror" THEN [s EXCEPT !.failed = TRUE] ELSE s

\* the events of one call, all fired while the maps are viewsNow, providersNow
RECURSIVE Notify(_, _, _, _)
Notify(s, events, viewsNow, providersNow) ==
    IF events = <<>> THEN s
    ELSE Notify(Deliver(s, Head(events), viewsNow, providersNow),
                Tail(events), viewsNow, providersNow)

\* ------------------------------------------------------------------- Init
Init ==
    /\ views = [x \in {} |-> <<>>]
    /\ treeViewDataPoviders = [x \in {} |-> undefined]
    /\ call = [op |-> "new"]
    /\ ret = undefined
    /\ fired = <<>>
    /\ everRegistered = {}
    /\ registered = [unique |-> TRUE, descriptors |-> <<>>]
    /\ subscriber = NoSubscriber

\* --------------------------------------------------------- registerViews
\* the for loop of registerViews from index i on; `at' is the index of the
\* descriptor that threw, 0 when the loop ran to its end
RECURSIVE registerLoopSkip(_, _, _)
registerLoopSkip(m, viewDescriptors, i) ==
    IF i > Len(viewDescriptors) THEN [views |-> m, at |-> 0]
    ELSE LET viewDescriptor == viewDescriptors[i]
             m1 == IF MapHas(m, viewDescriptor.location) THEN m
                   ELSE MapSet(m, viewDescriptor.location, <<>>)
             vs == m1[viewDescriptor.location]
         IN IF some(vs, viewDescriptor.id)
            THEN registerLoopSkip(m1, viewDescriptors, i + 1)
            ELSE registerLoopSkip(MapSet(m1, viewDescriptor.location, push(vs, viewDescriptor)),
                                  viewDescriptors, i + 1)

RECURSIVE registerLoop(_, _, _)
registerLoop(m, viewDescriptors, i) ==
    IF i > Len(viewDescriptors) THEN [views |-> m, at |-> 0]
    ELSE LET viewDescriptor == viewDescriptors[i]
             m1 == IF MapHas(m, viewDescriptor.location) THEN m
                   ELSE MapSet(m, viewDescriptor.location, <<>>)
             vs == m1[viewDescriptor.location]
         IN IF some(vs, viewDescriptor.id)
            THEN [views |-> m1, at |-> i]
            ELSE registerLoop(MapSet(m1, viewDescriptor.location, push(vs, viewDescriptor)),
                              viewDescriptors, i + 1)

PairsUnique(arr) ==
    \A i, j \in 1..Len(arr) :
        (arr[i].id = arr[j].id /\ arr[i].location = arr[j].location) => i = j

\* history kept for as long as only pairwise-unique registrations happened
Remember(viewDescriptors) ==
    LET all == registered.descriptors \o viewDescriptors
    IN IF registered.unique /\ PairsUnique(all)
       THEN [unique |-> TRUE, descriptors |-> all]
       ELSE [unique |-> FALSE, descriptors |-> <<>>]

\* how many descriptors of the batch reached views.push
pushedCount(m, viewDescriptors) ==
    LET r == registerLoop(m, viewDescriptors, 1)
    IN IF r.at = 0 THEN Len(viewDescriptors) ELSE r.at - 1

fireViewsRegisteredEach(viewDescriptors) ==
    [i \in 1..Len(viewDescriptors) |-> ViewsRegisteredEvent(<<viewDescriptors[i]>>)]

\* this._onViewsRegistered.fire(viewDescriptors)
fireViewsRegistered(viewDescriptors) == <<ViewsRegisteredEvent(viewDescriptors)>>

registerViewsFireOnThrow(viewDescriptors) ==
    /\ call' = [op |-> "registerViews", viewDescriptors |-> viewDescriptors]
    /\ IF Len(viewDescriptors) # 0
       THEN LET r == registerLoop(views, viewDescriptors, 1)
            IN /\ views' = r.views
               /\ IF r.at # 0
                  THEN /\ ret' = Throw("duplicateId", viewDescriptors[r.at].id,
                                       viewDescriptors[r.at].location.id)
                       /\ fired' = fireViewsRegistered(SubSeq(viewDescriptors, 1, r.at - 1))
                       /\ subscriber' = CallFailed(Notify(BeginCall(subscriber), fired',
                                                          r.views, treeViewDataPoviders))
                  ELSE /\ ret' = undefined
                       /\ fired' = fireViewsRegistered(viewDescriptors)
                       /\ subscriber' = Notify(BeginCall(subscriber), fired',
                                               r.views, treeViewDataPoviders)
       ELSE /\ views' = views
            /\ ret' = undefined
            /\ fired' = <<>>
            /\ subscriber' = BeginCall(subscriber)
    /\ everRegistered' = everRegistered \cup
           {viewDescriptors[i].location : i \in 1..pushedCount(views, viewDescriptors)}
    /\ registered' = Remember(viewDescriptors)
    /\ UNCHANGED treeViewDataPoviders

registerViews(viewDescriptors) ==
    /\ call' = [op |-> "registerViews", viewDescriptors |-> viewDescriptors]
    /\ IF Len(viewDescriptors) # 0
       THEN LET r == registerLoop(views, viewDescriptors, 1)
            IN /\ views' = r.views
               /\ IF r.at # 0
                  THEN /\ ret' = Throw("duplicateId", viewDescriptors[r.at].id,
                                       viewDescriptors[r.at].location.id)
                       /\ fired' = <<>>
                       /\ subscriber' = CallFailed(BeginCall(subscriber))
                  ELSE /\ ret' = undefined
                       /\ fired' = fireViewsRegistered(viewDescriptors)
                       /\ subscriber' = Notify(BeginCall(subscriber), fired',
                                               r.views, treeViewDataPoviders)
       ELSE /\ views' = views
            /\ ret' = undefined
            /\ fired' = <<>>
            /\ subscriber' = BeginCall(subscriber)
    /\ everRegistered' = everRegistered \cup
           {viewDescriptors[i].location : i \in 1..pushedCount(views, viewDescriptors)}
    /\ registered' = Remember(viewDescriptors)
    /\ UNCHANGED treeViewDataPoviders

\* -------------------------------------------------------- deregisterViews
\* Array.prototype.indexOf: 0-based index of the first match, -1 when none
indexOf(arr, x) ==
    IF \E i \in 1..Len(arr) : arr[i] = x
    THEN (CHOOSE i \in 1..Len(arr) : arr[i] = x /\ \A j \in 1..(i - 1) : arr[j] # x) - 1
    ELSE -1

viewsToDeregisterAll(vs, ids) == vs

viewsToDeregister(vs, ids) == SelectSeq(vs, LAMBDA view : indexOf(ids, view.id) # -1)

remainingViewsReversed(vs, ids) ==
    LET kept == SelectSeq(vs, LAMBDA view : indexOf(ids, view.id) = -1)
    IN [i \in 1..Len(kept) |-> kept[Len(kept) + 1 - i]]

remainingViewsKeepAll(vs, ids) == vs

remainingViews(vs, ids) == SelectSeq(vs, LAMBDA view : indexOf(ids, view.id) = -1)

deregisterViewsNoGuard(ids, location) ==
    /\ call' = [op |-> "deregisterViews", ids |-> ids, location |-> location]
    /\ ret' = undefined
    /\ LET vs == getViews(location)
           toDeregister == viewsToDeregister(vs, ids)
       IN /\ views' = IF Len(toDeregister) # 0
                      THEN MapSet(views, location, remainingViews(vs, ids))
                      ELSE views
          /\ fired' = <<ViewsDeregisteredEvent(toDeregister)>>
          /\ subscriber' = Notify(BeginCall(subscriber), fired',
                                  views', treeViewDataPoviders)
    /\ registered' = [unique |-> FALSE, descriptors |-> <<>>]
    /\ UNCHANGED <<treeViewDataPoviders, everRegistered>>

deregisterViewsFireFirst(ids, location) ==
    /\ call' = [op |-> "deregisterViews", ids |-> ids, location |-> location]
    /\ ret' = undefined
    /\ IF ~MapHas(views, location)
       THEN /\ views' = views
            /\ fired' = <<>>
            /\ subscriber' = BeginCall(subscriber)
       ELSE LET vs == views[location]
                toDeregister == viewsToDeregister(vs, ids)
            IN /\ fired' = <<ViewsDeregisteredEvent(toDeregister)>>
               /\ subscriber' = Notify(BeginCall(subscriber), fired',
                                       views, treeViewDataPoviders)
               /\ views' = IF Len(toDeregister) # 0
                           THEN MapSet(views, location, remainingViews(vs, ids))
                           ELSE views
    /\ registered' = [unique |-> FALSE, descriptors |-> <<>>]
    /\ UNCHANGED <<treeViewDataPoviders, everRegistered>>

deregisterViewsEverywhere(ids, location) ==
    /\ call' = [op |-> "deregisterViews", ids |-> ids, location |-> location]
    /\ ret' = undefined
    /\ IF ~MapHas(views, location)
       THEN /\ views' = views
            /\ fired' = <<>>
            /\ subscriber' = BeginCall(subscriber)
       ELSE LET vs == views[location]
                toDeregister == viewsToDeregister(vs, ids)
            IN /\ views' = IF Len(toDeregister) # 0
                           THEN [loc \in DOMAIN views |-> remainingViews(views[loc], ids)]
                           ELSE views
               /\ fired' = <<ViewsDeregisteredEvent(toDeregister)>>
               /\ subscriber' = Notify(BeginCall(subscriber), fired',
                                       views', treeViewDataPoviders)
    /\ registered' = [unique |-> FALSE, descriptors |-> <<>>]
    /\ UNCHANGED <<treeViewDataPoviders, everRegistered>>

deregisterViews(ids, location) ==
    /\ call' = [op |-> "deregisterViews", ids |-> ids, location |-> location]
    /\ ret' = undefined
    /\ IF ~MapHas(views, location)
       THEN /\ views' = views
            /\ fired' = <<>>
            /\ subscriber' = BeginCall(subscriber)
       ELSE LET vs == views[location]
                toDeregister == viewsToDeregister(vs, ids)
            IN /\ views' = IF Len(toDeregister) # 0
                           THEN MapSet(views, location, remainingViews(vs, ids))
                           ELSE views
               /\ fired' = <<ViewsDeregisteredEvent(toDeregister)>>
               /\ subscriber' = Notify(BeginCall(subscriber), fired',
                                       views', treeViewDataPoviders)
    /\ registered' = [unique |-> FALSE, descriptors |-> <<>>]
    /\ UNCHANGED <<treeViewDataPoviders, everRegistered>>

\* ------------------------------------------------- tree view data providers
registerTreeViewDataProviderStrict(id, factory) ==
    /\ call' = [op |-> "registerTreeViewDataProvider", id |-> id, factory |-> factory]
    /\ IF ~isDataProviderRegistered(id)
       THEN /\ ret' = Throw("noView", id, "")
            /\ fired' = <<>>
            /\ subscriber' = BeginCall(subscriber)
            /\ UNCHANGED treeViewDataPoviders
       ELSE /\ ret' = undefined
            /\ treeViewDataPoviders' = MapSet(treeViewDataPoviders, id, factory)
            /\ fired' = <<TreeViewDataProviderRegisteredEvent(id)>>
            /\ subscriber' = Notify(BeginCall(subscriber), fired',
                                    views, treeViewDataPoviders')
    /\ UNCHANGED <<views, everRegistered, registered>>

\* the body of `if (!this.isDataProviderRegistered(id))' is a comment only
registerTreeViewDataProvider(id, factory) ==
    /\ call' = [op |-> "registerTreeViewDataProvider", id |-> id, factory |-> factory]
    /\ IF ~isDataProviderRegistered(id) THEN TRUE ELSE TRUE
    /\ ret' = undefined
    /\ treeViewDataPoviders' = MapSet(treeViewDataPoviders, id, factory)
    /\ fired' = <<TreeViewDataProviderRegisteredEvent(id)>>
    /\ subscriber' = Notify(BeginCall(subscriber), fired', views, treeViewDataPoviders')
    /\ UNCHANGED <<views, everRegistered, registered>>

deregisterTreeViewDataProvidersKeepOne ==
    /\ call' = [op |-> "deregisterTreeViewDataProviders"]
    /\ ret' = undefined
    /\ treeViewDataPoviders' =
           [x \in (DOMAIN treeViewDataPoviders) \ {"a"} |-> treeViewDataPoviders[x]]
    /\ fired' = <<>>
    /\ subscriber' = BeginCall(subscriber)
    /\ UNCHANGED <<views, everRegistered, registered>>

deregisterTreeViewDataProviders ==
    /\ call' = [op |-> "deregisterTreeViewDataProviders"]
    /\ ret' = undefined
    /\ treeViewDataPoviders' = MapClear(treeViewDataPoviders)
    /\ fired' = <<>>
    /\ subscriber' = BeginCall(subscriber)
    /\ UNCHANGED <<views, everRegistered, registered>>

\* ------------------------------------------------------------------ reads
callGetViewsCreating(loc) ==
    /\ call' = [op |-> "getViews", loc |-> loc]
    /\ ret' = Return(getViews(loc))
    /\ views' = IF MapHas(views, loc) THEN views ELSE MapSet(views, loc, <<>>)
    /\ fired' = <<>>
    /\ subscriber' = BeginCall(subscriber)
    /\ UNCHANGED <<treeViewDataPoviders, everRegistered, registered>>

callGetViews(loc) ==
    /\ call' = [op |-> "getViews", loc |-> loc]
    /\ ret' = Return(getViews(loc))
    /\ fired' = <<>>
    /\ subscriber' = BeginCall(subscriber)
    /\ UNCHANGED <<views, treeViewDataPoviders, everRegistered, registered>>

callGetTreeViewDataProvider(id) ==
    /\ call' = [op |-> "getTreeViewDataProvider", id |-> id]
    /\ ret' = getTreeViewDataProvider(id)
    /\ fired' = <<>>
    /\ subscriber' = BeginCall(subscriber)
    /\ UNCHANGED <<views, treeViewDataPoviders, everRegistered, registered>>

callGetContributedViewLocation(value) ==
    /\ call' = [op |-> "getContributedViewLocation", value |-> value]
    /\ ret' = getContributedViewLocation(value)
    /\ fired' = <<>>
    /\ subscriber' = BeginCall(subscriber)
    /\ UNCHANGED <<views, treeViewDataPoviders, everRegistered, registered>>

\* ----------------------------------------------------------- specifications
\* Spec: the views half of the registry
Next ==
    \/ \E viewDescriptors \in SeqsUpTo(IViewDescriptor, MaxBatch) :
           registerViews(viewDescriptors)
    \/ \E ids \in SeqsUpTo(ViewIds, MaxIds), location \in ViewLocations :
           deregisterViews(ids, location)
    \/ \E loc \in ViewLocations : callGetViews(loc)

Spec == Init /\ [][Next]_vars

\* SpecBatch: batches over descriptors that reuse an id under another name
NextBatch ==
    \/ \E viewDescriptors \in SeqsUpTo(IViewDescriptorRenamed, MaxBatch) :
           registerViews(viewDescriptors)
    \/ \E ids \in SeqsUpTo(ViewIds, MaxTreeBatch), location \in ViewLocations :
           deregisterViews(ids, location)

SpecBatch == Init /\ [][NextBatch]_vars

\* SpecLocation: location resolution, next to registrations
NextLocation ==
    \/ \E viewDescriptors \in SeqsUpTo(IViewDescriptor, MaxTreeBatch) :
           registerViews(viewDescriptors)
    \/ \E value \in LocationNames : callGetContributedViewLocation(value)

SpecLocation == Init /\ [][NextLocation]_vars

\* SpecTree: the providers half, over a registry of single registrations
NextTree ==
    \/ \E viewDescriptors \in SeqsUpTo(IViewDescriptor, MaxTreeBatch) :
           registerViews(viewDescriptors)
    \/ \E ids \in SeqsUpTo(ViewIds, MaxTreeBatch), location \in ViewLocations :
           deregisterViews(ids, location)
    \/ \E id \in TreeViewIds, factory \in Providers : registerTreeViewDataProvider(id, factory)
    \/ deregisterTreeViewDataProviders
    \/ \E id \in TreeViewIds : callGetTreeViewDataProvider(id)

SpecTree == Init /\ [][NextTree]_vars

\* SpecReader: both halves, with a listener that reads the registry at every
\* delivery
InitReader ==
    /\ views = [x \in {} |-> <<>>]
    /\ treeViewDataPoviders = [x \in {} |-> undefined]
    /\ call = [op |-> "new"]
    /\ ret = undefined
    /\ fired = <<>>
    /\ everRegistered = {}
    /\ registered = [unique |-> TRUE, descriptors |-> <<>>]
    /\ subscriber = ReaderSubscriber

NextReader ==
    \/ \E viewDescriptors \in SeqsUpTo(IViewDescriptorFew, MaxBatch) :
           registerViews(viewDescriptors)
    \/ \E ids \in SeqsUpTo(ViewIds, MaxTreeBatch), location \in ViewLocations :
           deregisterViews(ids, location)
    \/ \E id \in TreeViewIds, factory \in Providers : registerTreeViewDataProvider(id, factory)

SpecReader == InitReader /\ [][NextReader]_vars

\* SpecRead: the two reads, over a registry of single registrations
NextRead ==
    \/ \E viewDescriptors \in SeqsUpTo(IViewDescriptor, MaxTreeBatch) :
           registerViews(viewDescriptors)
    \/ \E ids \in SeqsUpTo(ViewIds, MaxTreeBatch), location \in ViewLocations :
           deregisterViews(ids, location)
    \/ \E id \in TreeViewIds, factory \in Providers : registerTreeViewDataProvider(id, factory)
    \/ \E loc \in ViewLocations : callGetViews(loc)
    \/ \E id \in TreeViewIds : callGetTreeViewDataProvider(id)

SpecRead == Init /\ [][NextRead]_vars

\* SpecRecorder: failing batches, with a listener that records the payloads
InitRecorder ==
    /\ views = [x \in {} |-> <<>>]
    /\ treeViewDataPoviders = [x \in {} |-> undefined]
    /\ call = [op |-> "new"]
    /\ ret = undefined
    /\ fired = <<>>
    /\ everRegistered = {}
    /\ registered = [unique |-> TRUE, descriptors |-> <<>>]
    /\ subscriber = RecorderSubscriber

NextRecorder ==
    \/ \E viewDescriptors \in SeqsUpTo(IViewDescriptorFew, MaxBatch) :
           registerViews(viewDescriptors)
    \/ \E ids \in SeqsUpTo(ViewIds, MaxTreeBatch), location \in ViewLocations :
           deregisterViews(ids, location)

SpecRecorder == InitRecorder /\ [][NextRecorder]_vars

\* SpecMirror: the views half, with a listener that mirrors the payloads
InitMirror ==
    /\ views = [x \in {} |-> <<>>]
    /\ treeViewDataPoviders = [x \in {} |-> undefined]
    /\ call = [op |-> "new"]
    /\ ret = undefined
    /\ fired = <<>>
    /\ everRegistered = {}
    /\ registered = [unique |-> TRUE, descriptors |-> <<>>]
    /\ subscriber = MirrorSubscriber

NextMirror ==
    \/ \E viewDescriptors \in SeqsUpTo(IViewDescriptorFew, MaxBatch) :
           registerViews(viewDescriptors)
    \/ \E ids \in SeqsUpTo(ViewIds, MaxIds), location \in ViewLocations :
           deregisterViews(ids, location)

SpecMirror == InitMirror /\ [][NextMirror]_vars
\* ================================================================ properties
IdSet(ids) == {ids[i] : i \in 1..Len(ids)}
IdsOf(arr) == {arr[i].id : i \in 1..Len(arr)}
IsCall(c, op) == c.op = op

\* C1: for every location, getViews(location) holds no two descriptors with
\* the same id, whatever registerViews (failed ones and batches that repeat
\* an id included) and deregisterViews calls came before.
C1_NoDuplicateIds ==
    \A loc \in ViewLocations :
        \A i, j \in 1..Len(getViews(loc)) :
            getViews(loc)[i].id = getViews(loc)[j].id => i = j

\* a batch that repeats an id of one location has just failed, its first
\* descriptor in place
C1_Witness ==
    /\ IsCall(call, "registerViews")
    /\ ret.kind = "throw"
    /\ Len(call.viewDescriptors) = 2
    /\ call.viewDescriptors[1].id = call.viewDescriptors[2].id
    /\ call.viewDescriptors[1].location = call.viewDescriptors[2].location
    /\ getViews(call.viewDescriptors[1].location) = <<call.viewDescriptors[1]>>

\* C2: as long as only registerViews calls with pairwise-unique
\* (id, location) pairs were made, getViews(location) is exactly the
\* descriptors given for that location, in the order given, and a getViews
\* call returns just that.
C2_RegistrationOrder ==
    registered.unique =>
        /\ \A loc \in ViewLocations :
               getViews(loc) = OnLocation(registered.descriptors, loc)
        /\ IsCall(call, "getViews") =>
               ret = Return(OnLocation(registered.descriptors, call.loc))

\* four unique registrations over two locations, then Explorer is read
C2_Witness ==
    /\ registered.unique
    /\ Len(registered.descriptors) = 4
    /\ IsCall(call, "getViews")
    /\ call.loc = Explorer
    /\ Len(ret.value) = 3
    /\ getViews(Debug) # <<>>

\* descriptor k of the batch collides: its id is in the current sequence of
\* its location or is the id of an earlier descriptor of the batch for the
\* same location
Collides(batch, k) ==
    \/ batch[k].id \in IdsOf(getViews(batch[k].location))
    \/ \E j \in 1..(k - 1) :
           batch[j].id = batch[k].id /\ batch[j].location = batch[k].location

Min(S) == CHOOSE k \in S : \A j \in S : k <= j

\* C3: when descriptor k is the first of the batch to collide, registerViews
\* throws the duplicateId error for it, every location's sequence is its
\* old sequence followed by the descriptors 1..k-1 of that location (so k
\* and the later ones are not inserted and the holder of the colliding id
\* stays as it was).
C3_PartialBatch ==
    [][IsCall(call', "registerViews")
       => LET batch == call'.viewDescriptors
              colliding == {k \in 1..Len(batch) : Collides(batch, k)}
              k == Min(colliding)
          IN colliding # {}
                 => /\ ret' = Throw("duplicateId", batch[k].id, batch[k].location.id)
                    /\ \A loc \in ViewLocations :
                           getViewsIn(views', loc) =
                               getViews(loc) \o OnLocation(SubSeq(batch, 1, k - 1), loc)]_vars

\* a batch failed on its second descriptor, whose id is held by a descriptor
\* of another name; the first descriptor of the batch is the last of its
\* location
C3_Witness ==
    /\ IsCall(call, "registerViews")
    /\ ret.kind = "throw"
    /\ Len(call.viewDescriptors) = 2
    /\ LET first == call.viewDescriptors[1]
           second == call.viewDescriptors[2]
           held == getViews(second.location)
       IN /\ ret.id = second.id
          /\ getViews(first.location) # <<>>
          /\ getViews(first.location)[Len(getViews(first.location))] = first
          /\ \E i \in 1..Len(held) : held[i].id = second.id /\ held[i].name # second.name
          /\ first.id # second.id

\* C4: a registerViews call that succeeds on a non-empty batch fires one
\* onViewsRegistered event and nothing else, its payload the batch as given;
\* a call with an empty batch changes neither map, throws nothing and fires
\* nothing.
C4_OneRegisteredEvent ==
    [][IsCall(call', "registerViews")
       => LET batch == call'.viewDescriptors
          IN /\ (batch # <<>> /\ ret'.kind # "throw")
                    => fired' = <<ViewsRegisteredEvent(batch)>>
             /\ batch = <<>>
                    => /\ views' = views
                       /\ treeViewDataPoviders' = treeViewDataPoviders
                       /\ ret' = undefined
                       /\ fired' = <<>>]_vars

\* a batch of two for two locations went through
C4_Witness ==
    /\ IsCall(call, "registerViews")
    /\ ret = undefined
    /\ Len(call.viewDescriptors) = 2
    /\ call.viewDescriptors[1].location # call.viewDescriptors[2].location
    /\ Len(fired) = 1
    /\ fired[1].payload = call.viewDescriptors

\* C5 as claimed: deregisterViews on a location whose getViews is empty
\* changes nothing and fires nothing.
C5_Original ==
    [][(IsCall(call', "deregisterViews") /\ getViews(call'.location) = <<>>)
       => /\ views' = views
          /\ fired' = <<>>]_vars

\* C5 amended: deregisterViews on a location no descriptor was ever
\* registered in changes nothing and fires nothing; on a location emptied by
\* earlier deregistrations it changes nothing either but fires one
\* onViewsDeregistered event with an empty payload.
C5_NeverRegisteredNoOp ==
    [][IsCall(call', "deregisterViews")
       => /\ call'.location \notin everRegistered
              => /\ views' = views
                 /\ treeViewDataPoviders' = treeViewDataPoviders
                 /\ ret' = undefined
                 /\ fired' = <<>>
          /\ (call'.location \in everRegistered /\ getViews(call'.location) = <<>>)
              => /\ views' = views
                 /\ treeViewDataPoviders' = treeViewDataPoviders
                 /\ ret' = undefined
                 /\ fired' = <<ViewsDeregisteredEvent(<<>>)>>]_vars

\* deregisterViews was just called on a location nothing was registered in,
\* while another location holds views
C5_Witness ==
    /\ IsCall(call, "deregisterViews")
    /\ call.ids # <<>>
    /\ call.location \notin everRegistered
    /\ everRegistered # {}
    /\ \E loc \in ViewLocations : IdSet(call.ids) \cap IdsOf(getViews(loc)) # {}
    /\ fired = <<>>

\* C6: after deregisterViews(ids, location), getViews(location) is the old
\* sequence without the descriptors whose id is in ids, the others in their
\* old order; on a location nothing was ever registered in, the call changes
\* nothing and fires nothing.
C6_RemovesExactlyIds ==
    [][IsCall(call', "deregisterViews")
       => /\ getViewsIn(views', call'.location) =
                 SelectSeq(getViews(call'.location),
                           LAMBDA view : view.id \notin IdSet(call'.ids))
          /\ call'.location \notin everRegistered
                 => (views' = views /\ fired' = <<>>)]_vars

\* one descriptor was removed and two stayed
C6_Witness ==
    /\ IsCall(call, "deregisterViews")
    /\ Len(fired) = 1
    /\ Len(fired[1].payload) = 1
    /\ Len(getViews(call.location)) = 2

\* C7: deregisterViews on a location that holds at least one descriptor
\* fires one onViewsDeregistered event and nothing else, its payload the
\* descriptors of the location whose id is in ids, in sequence order; when
\* none matches, the payload is empty and the sequence stays as it was.
C7_OneDeregisteredEvent ==
    [][(IsCall(call', "deregisterViews") /\ getViews(call'.location) # <<>>)
       => LET matched == SelectSeq(getViews(call'.location),
                                   LAMBDA view : view.id \in IdSet(call'.ids))
          IN /\ fired' = <<ViewsDeregisteredEvent(matched)>>
             /\ matched = <<>>
                    => getViewsIn(views', call'.location) = getViews(call'.location)]_vars

\* no id matched on a location that holds views: an event with no payload
C7_Witness ==
    /\ IsCall(call, "deregisterViews")
    /\ call.ids # <<>>
    /\ getViews(call.location) # <<>>
    /\ fired = <<ViewsDeregisteredEvent(<<>>)>>

KnownLocation(value) == CHOOSE loc \in ViewLocations : loc.id = value

\* C8 as claimed: resolving the id of any of the three locations returns
\* that location, resolving any other string returns undefined.
C8_Original ==
    IsCall(call, "getContributedViewLocation")
        => IF \E loc \in ViewLocations : loc.id = call.value
           THEN ret = Return(KnownLocation(call.value))
           ELSE ret = undefined

\* C8 amended: getContributedViewLocation returns Explorer for "explorer",
\* Debug for "debug" and undefined for every other string, "extensions"
\* included; what it returns is one of the three static locations, and the
\* call changes neither map and fires nothing.
C8_ContributedLocations ==
    [][IsCall(call', "getContributedViewLocation")
       => /\ call'.value = "explorer" => ret' = Return(Explorer)
          /\ call'.value = "debug" => ret' = Return(Debug)
          /\ call'.value \notin {"explorer", "debug"} => ret' = undefined
          /\ ret' # undefined => ret'.value \in ViewLocations
          /\ views' = views
          /\ treeViewDataPoviders' = treeViewDataPoviders
          /\ fired' = <<>>]_vars

\* "debug" was resolved while the registry holds views
C8_Witness ==
    /\ IsCall(call, "getContributedViewLocation")
    /\ call.value = "debug"
    /\ ret = Return(Debug)
    /\ everRegistered # {}

\* C9: registerTreeViewDataProvider(id, factory) never throws; afterwards
\* getTreeViewDataProvider(id) is factory, every other id has the binding it
\* had, and one onTreeViewDataProviderRegistered event carrying id was fired
\* and nothing else.
C9_ProviderBound ==
    [][IsCall(call', "registerTreeViewDataProvider")
       => /\ ret' = undefined
          /\ getTreeViewDataProviderIn(treeViewDataPoviders', call'.id) = Return(call'.factory)
          /\ \A other \in (ViewIds \cup TreeViewIds) \ {call'.id} :
                 getTreeViewDataProviderIn(treeViewDataPoviders', other) =
                     getTreeViewDataProvider(other)
          /\ fired' = <<TreeViewDataProviderRegisteredEvent(call'.id)>>]_vars

\* a provider was bound to an id no view has, next to another binding
C9_Witness ==
    /\ IsCall(call, "registerTreeViewDataProvider")
    /\ ~isDataProviderRegistered(call.id)
    /\ everRegistered # {}
    /\ getTreeViewDataProvider(call.id) = Return(call.factory)
    /\ \E other \in TreeViewIds \ {call.id} :
           /\ getTreeViewDataProvider(other) # undefined
           /\ getTreeViewDataProvider(other) # Return(call.factory)

\* C10: deregisterTreeViewDataProviders leaves no id bound, fires nothing
\* and leaves the views map as it was; an id that is unbound gets bound only
\* by a registerTreeViewDataProvider call for that id.
C10_ProvidersCleared ==
    [][/\ IsCall(call', "deregisterTreeViewDataProviders")
           => /\ \A id \in ViewIds \cup TreeViewIds :
                      getTreeViewDataProviderIn(treeViewDataPoviders', id) = undefined
              /\ fired' = <<>>
              /\ views' = views
       /\ \A id \in ViewIds \cup TreeViewIds :
              (/\ getTreeViewDataProvider(id) = undefined
               /\ getTreeViewDataProviderIn(treeViewDataPoviders', id) # undefined)
                  => (IsCall(call', "registerTreeViewDataProvider") /\ call'.id = id)]_vars

\* the providers were just cleared while views are registered
C10_Witness ==
    /\ IsCall(call, "deregisterTreeViewDataProviders")
    /\ DOMAIN treeViewDataPoviders = {}
    /\ isDataProviderRegistered("a")
    /\ getViews(Explorer) # <<>>

\* C11: getViews and getTreeViewDataProvider change neither map and fire
\* nothing; getViews returns the empty sequence (a value, not undefined) for
\* a location that holds no descriptor, whether none was ever registered or
\* all were deregistered, and getTreeViewDataProvider returns undefined, and
\* does not throw, for an id without a binding.
C11_PureReads ==
    [][/\ IsCall(call', "getViews")
           => /\ views' = views
              /\ treeViewDataPoviders' = treeViewDataPoviders
              /\ fired' = <<>>
              /\ ret'.kind = "return"
              /\ (\/ call'.loc \notin everRegistered
                  \/ (MapHas(views, call'.loc) /\ views[call'.loc] = <<>>))
                     => ret' = Return(<<>>)
              /\ (MapHas(views, call'.loc) /\ views[call'.loc] # <<>>)
                     => ret' = Return(views[call'.loc])
       /\ IsCall(call', "getTreeViewDataProvider")
           => /\ views' = views
              /\ treeViewDataPoviders' = treeViewDataPoviders
              /\ fired' = <<>>
              /\ ret'.kind # "throw"
              /\ ~MapHas(treeViewDataPoviders, call'.id) => ret' = undefined
              /\ MapHas(treeViewDataPoviders, call'.id)
                     => ret' = Return(treeViewDataPoviders[call'.id])]_vars

\* getViews was just called on a location whose descriptors were all
\* deregistered, while another location holds views and a provider is bound
C11_Witness ==
    /\ IsCall(call, "getViews")
    /\ call.loc \in everRegistered
    /\ ret = Return(<<>>)
    /\ \E loc \in ViewLocations : getViews(loc) # <<>>
    /\ DOMAIN treeViewDataPoviders # {}

\* C12: at every delivery the listener reads the state the call leaves
\* behind: at onViewsRegistered every descriptor of the payload is in the
\* sequence of its location, at onViewsDeregistered no descriptor of the
\* payload is in the sequence of the location, at
\* onTreeViewDataProviderRegistered the id is bound to the provider given.
C12_CommittedBeforeFire ==
    subscriber.kind = "reader" =>
        /\ Len(subscriber.seen) = Len(fired)
        /\ \A i \in 1..Len(fired) :
               LET e == fired[i]
                   seen == subscriber.seen[i]
               IN /\ e.event = "onViewsRegistered"
                        => \A d \in Range(e.payload) :
                               d \in Range(getViewsIn(seen.views, d.location))
                  /\ e.event = "onViewsDeregistered"
                        => \A d \in Range(e.payload) :
                               d \notin Range(getViewsIn(seen.views, call.location))
                  /\ e.event = "onTreeViewDataProviderRegistered"
                        => getTreeViewDataProviderIn(seen.treeViewDataPoviders, e.payload)
                               = Return(call.factory)

\* the listener was told of a deregistration that took one descriptor out of
\* two, with a provider bound
C12_Witness ==
    /\ subscriber.kind = "reader"
    /\ IsCall(call, "deregisterViews")
    /\ Len(subscriber.seen) = 1
    /\ Len(fired[1].payload) = 1
    /\ Len(getViewsIn(subscriber.seen[1].views, call.location)) = 1
    /\ DOMAIN subscriber.seen[1].treeViewDataPoviders # {}

\* C13: a registerViews batch none of whose descriptors collides within its
\* own location succeeds and is appended, whatever ids the other locations
\* hold; deregisterViews(ids, location) leaves the sequence of every other
\* location and every provider binding as they were.
C13_ScopedPerLocation ==
    [][/\ (IsCall(call', "registerViews")
               /\ \A k \in 1..Len(call'.viewDescriptors) :
                      ~Collides(call'.viewDescriptors, k))
           => /\ ret' = undefined
              /\ \A loc \in ViewLocations :
                     getViewsIn(views', loc) =
                         getViews(loc) \o OnLocation(call'.viewDescriptors, loc)
       /\ IsCall(call', "deregisterViews")
           => /\ \A loc \in ViewLocations \ {call'.location} :
                     /\ getViewsIn(views', loc) = getViews(loc)
                     /\ MapHas(views', loc) = MapHas(views, loc)
              /\ treeViewDataPoviders' = treeViewDataPoviders]_vars

\* an id was deregistered in one location while another location holds a
\* descriptor of that id and a provider is bound to it
C13_Witness ==
    /\ IsCall(call, "deregisterViews")
    /\ Len(fired) = 1
    /\ Len(fired[1].payload) = 1
    /\ LET id == fired[1].payload[1].id
       IN /\ \E loc \in ViewLocations \ {call.location} : id \in IdsOf(getViews(loc))
          /\ getTreeViewDataProvider(id) # undefined

\* C14: a registerViews call that throws fires nothing, so the listener's
\* record of carried descriptors stays as it was.
C14_NoEventOnThrow ==
    [][(IsCall(call', "registerViews") /\ ret'.kind = "throw")
       => /\ fired' = <<>>
          /\ subscriber'.kind = "recorder" => subscriber'.carried = subscriber.carried]_vars

\* a batch threw on its second descriptor and its first one is in getViews
\* though no onViewsRegistered event ever carried it
C14_Witness ==
    /\ subscriber.kind = "recorder"
    /\ IsCall(call, "registerViews")
    /\ ret.kind = "throw"
    /\ Len(call.viewDescriptors) = 2
    /\ call.viewDescriptors[1] \in Range(getViews(call.viewDescriptors[1].location))
    /\ call.viewDescriptors[1] \notin subscriber.carried
    /\ subscriber.carried # {}

\* C15: as long as no registerViews call threw, the sequences the mirroring
\* listener keeps are, for every location, the sequence getViews returns.
C15_MirrorEqualsViews ==
    (subscriber.kind = "mirror" /\ ~subscriber.failed)
        => \A loc \in ViewLocations : subscriber.mirror[loc] = getViews(loc)

\* after registrations in two locations and a deregistration that took one
\* descriptor out, with no call having thrown
C15_Witness ==
    /\ subscriber.kind = "mirror"
    /\ ~subscriber.failed
    /\ IsCall(call, "deregisterViews")
    /\ Len(fired) = 1
    /\ Len(fired[1].payload) = 1
    /\ subscriber.mirror[Explorer] # <<>>
    /\ subscriber.mirror[Debug] # <<>>
====
